---- MODULE Spec2Model ----
(***************************************************************************)
(* Model of continue_folder.py: the ContinueFolder class (token table,     *)
(* pattern -> regex translation, directory scan, version update, name      *)
(* resolution, creation of the reel / directory) and the handlers of its   *)
(* main window and of its "Save Preset" window.                            *)
(*                                                                         *)
(* Text is modelled as sequences of one-character strings, so that the     *)
(* substitutions, the regular expressions, str(), int() and zfill() are    *)
(* computed character by character as Python computes them.                *)
(***************************************************************************)
EXTENDS Integers, Sequences, FiniteSets, TLC

(***************************************************************************)
(* Characters.  Ascii lists the printable ASCII characters in code order   *)
(* (32..126); NonAscii stands for one code point above 127 (U+00E9).       *)
(* The double quote, the backslash and the backtick are written by name.   *)
(***************************************************************************)
DoubleQuote == "QUOTE"

Backslash == "BACKSLASH"

Backtick == "BACKTICK"

Ascii ==
  << " ", "!", DoubleQuote, "#", "$", "%", "&", "'", "(", ")", "*", "+", ",",
     "-", ".", "/", "0", "1", "2", "3", "4", "5", "6", "7", "8", "9", ":", ";",
     "<", "=", ">", "?", "@", "A", "B", "C", "D", "E", "F", "G", "H", "I",
     "J", "K", "L", "M", "N", "O", "P", "Q", "R", "S", "T", "U", "V", "W",
     "X", "Y", "Z", "[", Backslash, "]", "^", "_", Backtick, "a", "b", "c", "d", "e",
     "f", "g", "h", "i", "j", "k", "l", "m", "n", "o", "p", "q", "r", "s",
     "t", "u", "v", "w", "x", "y", "z", "{", "|", "}", "~" >>

NonAscii == "U+00E9"

\* the code points of the characters of table, which starts at code 32
CodePoints(table) ==
  [c \in {table[i] : i \in DOMAIN table} \cup {NonAscii} |->
     IF c = NonAscii THEN 233
     ELSE 31 + (CHOOSE i \in DOMAIN table : table[i] = c)]

Ord == CodePoints(Ascii)

Chars == DOMAIN Ord

DigitChars == <<"0", "1", "2", "3", "4", "5", "6", "7", "8", "9">>

IsDigit(c) == \E d \in DOMAIN DigitChars : DigitChars[d] = c

\* the characters whose code lies in ord[lo]..ord[hi]
Between(ord, lo, hi) ==
  {x \in DOMAIN ord : ord[x] >= ord[lo] /\ ord[x] <= ord[hi]}

\* the characters a class [lo-hi] matches
CharRange(lo, hi) == Between(Ord, lo, hi)

Max(a, b) == IF a >= b THEN a ELSE b

(***************************************************************************)
(* The part of Python's re module the program exercises.                   *)
(*                                                                         *)
(* A regular expression is parsed into a flat sequence of items:           *)
(*   atom  - a set of characters with a repeat range min..max              *)
(*           (max = Inf for '*'),                                          *)
(*   open  - '(' , '(?:' or '(?P<name>' ; cap tells if it captures,        *)
(*   close - ')' ; open is the index of the item it closes.                *)
(* Supported syntax: literals, '.', '[x-y]', '*', '{n}', groups that are   *)
(* not themselves repeated.  '{' that does not start '{n}' is a literal,   *)
(* as in Python.  Anything else parses to status "unsupported".            *)
(* Errors (re.error): unbalanced parenthesis, unterminated group,          *)
(* redefinition of a group name, nothing to repeat, multiple repeat.       *)
(***************************************************************************)
Inf == 1000000

Item(k, set, min, max, cap, name, open) ==
  [k |-> k, set |-> set, min |-> min, max |-> max, cap |-> cap,
   name |-> name, open |-> open]

Atom(set) == Item("atom", set, 1, 1, FALSE, <<>>, 0)

RECURSIVE DigitRunEnd(_, _)
\* index of the first character at or after i that is not a digit
DigitRunEnd(r, i) ==
  IF i <= Len(r) /\ IsDigit(r[i]) THEN DigitRunEnd(r, i + 1) ELSE i

RECURSIVE StrToInt(_)
\* int(text) for a text of decimal digits
StrToInt(s) ==
  IF s = <<>> THEN 0
  ELSE 10 * StrToInt(SubSeq(s, 1, Len(s) - 1)) + (Ord[s[Len(s)]] - 48)

RECURSIVE FindChar(_, _, _)
\* index of the first c at or after i, 0 if none
FindChar(r, i, c) ==
  IF i > Len(r) THEN 0
  ELSE IF r[i] = c THEN i
  ELSE FindChar(r, i + 1, c)

Requantify(items, min, max) ==
  [items EXCEPT ![Len(items)].min = min, ![Len(items)].max = max]

RECURSIVE Parse(_, _, _, _, _, _)
\* r: the expression; i: next character; items: parsed so far;
\* stack: indexes of the open items not yet closed; names: group names seen;
\* prev: what a quantifier would apply to ("none", "atom", "quant", "group")
Parse(r, i, items, stack, names, prev) ==
  IF i > Len(r) THEN
    IF stack # <<>> THEN [status |-> "error", items |-> <<>>]
    ELSE [status |-> "ok", items |-> items]
  ELSE
    LET c == r[i]
        Extension == c = "(" /\ i + 1 <= Len(r) /\ r[i + 1] = "?"
        NonCapturing == Extension /\ i + 2 <= Len(r) /\ r[i + 2] = ":"
        Named ==
          /\ Extension
          /\ i + 3 <= Len(r) /\ r[i + 2] = "P" /\ r[i + 3] = "<"
          /\ FindChar(r, i + 4, ">") > i + 4
        IsQuantBrace ==
          /\ c = "{"
          /\ DigitRunEnd(r, i + 1) > i + 1
          /\ DigitRunEnd(r, i + 1) <= Len(r)
          /\ r[DigitRunEnd(r, i + 1)] = "}"
        IsRange ==
          /\ c = "["
          /\ i + 4 <= Len(r) /\ r[i + 2] = "-" /\ r[i + 4] = "]"
        Quant(min, max, next) ==
          CASE prev = "atom" ->
                 Parse(r, next, Requantify(items, min, max), stack, names,
                       "quant")
            [] prev = "group" -> [status |-> "unsupported", items |-> <<>>]
            [] OTHER -> [status |-> "error", items |-> <<>>]
    IN
    CASE NonCapturing ->
           Parse(r, i + 3,
                 Append(items, Item("open", {}, 0, 0, FALSE, <<>>, 0)),
                 Append(stack, Len(items) + 1), names, "none")
      [] Named ->
           LET gt == FindChar(r, i + 4, ">")
               name == SubSeq(r, i + 4, gt - 1)
           IN IF name \in names THEN [status |-> "error", items |-> <<>>]
              ELSE Parse(r, gt + 1,
                         Append(items, Item("open", {}, 0, 0, TRUE, name, 0)),
                         Append(stack, Len(items) + 1),
                         names \cup {name}, "none")
      [] Extension /\ ~NonCapturing /\ ~Named ->
           [status |-> "unsupported", items |-> <<>>]
      [] c = "(" /\ ~Extension ->
           Parse(r, i + 1,
                 Append(items, Item("open", {}, 0, 0, TRUE, <<>>, 0)),
                 Append(stack, Len(items) + 1), names, "none")
      [] c = ")" /\ stack = <<>> -> [status |-> "error", items |-> <<>>]
      [] c = ")" /\ stack # <<>> ->
           Parse(r, i + 1,
                 Append(items,
                        Item("close", {}, 0, 0, FALSE, <<>>,
                             stack[Len(stack)])),
                 SubSeq(stack, 1, Len(stack) - 1), names, "group")
      [] IsRange ->
           LET set == CharRange(r[i + 1], r[i + 3])
           IN IF set = {} THEN [status |-> "error", items |-> <<>>]
              ELSE Parse(r, i + 5, Append(items, Atom(set)), stack, names,
                         "atom")
      [] c = "[" /\ ~IsRange -> [status |-> "unsupported", items |-> <<>>]
      [] c = "*" -> Quant(0, Inf, i + 1)
      [] IsQuantBrace ->
           LET e == DigitRunEnd(r, i + 1)
               n == StrToInt(SubSeq(r, i + 1, e - 1))
           IN Quant(n, n, e + 1)
      [] c = "." ->
           Parse(r, i + 1, Append(items, Atom(Chars)), stack, names, "atom")
      [] c \in {"^", "$", "+", "?", Backslash, "|"} ->
           [status |-> "unsupported", items |-> <<>>]
      [] OTHER ->
           Parse(r, i + 1, Append(items, Atom({c})), stack, names, "atom")

\* an item that takes a number of characters known beforehand: a group
\* boundary takes none, an atom repeated exactly min times takes min
Fixed(it) == it.k # "atom" \/ it.min = it.max

Width(it) == IF it.k = "atom" THEN it.min ELSE 0

\* the first item from j on that is not Fixed, Len(items) + 1 if none
FixedEnd(items, j) ==
  CHOOSE k \in j..(Len(items) + 1) :
    /\ k = Len(items) + 1 \/ ~Fixed(items[k])
    /\ \A m \in j..(k - 1) : Fixed(items[m])

\* the first item of the run of Fixed items that m is in or ends
FixedStart(items, m) ==
  CHOOSE j \in 1..m :
    /\ j = 1 \/ ~Fixed(items[j - 1])
    /\ \A q \in j..(m - 1) : Fixed(items[q])

\* the characters the Fixed items before m in its run take
FixedOffset(items, m) ==
  Cardinality(UNION {{<<q, c>> : c \in 1..Width(items[q])} :
                       q \in FixedStart(items, m)..(m - 1)})

\* each item with the end of its run of Fixed items (stop) and its
\* distance from the beginning of the run (off), as the matcher uses them
Link(items) ==
  [m \in 1..Len(items) |->
     [k |-> items[m].k, set |-> items[m].set, min |-> items[m].min,
      max |-> items[m].max, cap |-> items[m].cap, name |-> items[m].name,
      open |-> items[m].open, stop |-> FixedEnd(items, m),
      off |-> FixedOffset(items, m)]]

Linked(c) == [status |-> c.status, items |-> Link(c.items)]

Compile(r) == Linked(Parse(r, 1, <<>>, <<>>, {}, "none"))

Min(a, b) == IF a <= b THEN a ELSE b

\* number of consecutive characters of s from pos that lie in set, at most cap
RunLen(s, pos, set, cap) ==
  LET lim == Min(cap, Len(s) - pos + 1)
  IN CHOOSE n \in 0..lim :
       /\ \A k \in 0..(n - 1) : s[pos + k] \in set
       /\ n = lim \/ s[pos + n] \notin set

(***************************************************************************)
(* Backtracking match of items[j..] against s from pos, greedy as in       *)
(* Python: a repeated atom takes the greatest count, from its run down to  *)
(* its minimum, for which the rest of the expression matches.  The result  *)
(* is <<>> on failure, otherwise the positions at which the items          *)
(* j, j+1, ... began followed by the end of the match.  A run of Fixed     *)
(* items is matched in one step, at the offsets Link gave its items.        *)
(***************************************************************************)
\* the characters of s at the Fixed items j..k-1, a run beginning at pos,
\* are in the items' sets
FixedFits(items, s, j, pos, k) ==
  \A m \in j..(k - 1) :
    \A c \in 1..Width(items[m]) :
      /\ pos + items[m].off + c - 1 <= Len(s)
      /\ s[pos + items[m].off + c - 1] \in items[m].set

\* the positions of the Fixed items j..k-1 before those of the rest
FixedThen(items, j, pos, k, rest) ==
  IF rest = <<>> THEN <<>>
  ELSE [m \in 1..(k - j) |-> pos + items[j + m - 1].off] \o rest

RECURSIVE MatchFrom(_, _, _, _)
RECURSIVE MatchFixed(_, _, _, _, _)
MatchFrom(items, s, j, pos) ==
  CASE j > Len(items) -> <<pos>>
    [] j <= Len(items) /\ ~Fixed(items[j]) ->
         LET run == RunLen(s, pos, items[j].set, items[j].max)
             tries == {<<n, MatchFrom(items, s, j + 1, pos + n)>> :
                         n \in items[j].min..run}
             fits == {t \in tries : t[2] # <<>>}
         IN IF fits = {} THEN <<>>
            ELSE <<pos>> \o
                 (CHOOSE t \in fits : \A u \in fits : u[1] <= t[1])[2]
    [] OTHER -> MatchFixed(items, s, j, pos, items[j].stop)

\* the run of Fixed items j..k-1 in one step, then the items from k on
MatchFixed(items, s, j, pos, k) ==
  IF FixedFits(items, s, j, pos, k)
  THEN FixedThen(items, j, pos, k,
                 MatchFrom(items, s, k,
                           pos + items[k - 1].off + Width(items[k - 1])))
  ELSE <<>>

\* the indexes of the capturing open items, in group-number order
CapturingOpens(items) ==
  SelectSeq([j \in 1..Len(items) |-> j],
            LAMBDA j : items[j].k = "open" /\ items[j].cap)

CloseOf(items, a) ==
  CHOOSE b \in 1..Len(items) : items[b].k = "close" /\ items[b].open = a

NoMatch == [matched |-> FALSE, start |-> 0, end |-> 0, groups |-> <<>>]

\* match of the compiled items anchored at position pos of s:
\* [start, end) is group 0, groups are the texts of the capturing groups
\* the match object for the positions at that MatchFrom found from pos
MatchObject(items, s, pos, at, caps) ==
  IF at = <<>> THEN NoMatch
  ELSE [matched |-> TRUE, start |-> pos, end |-> at[Len(at)],
        groups |-> [g \in 1..Len(caps) |->
                      SubSeq(s, at[caps[g]],
                             at[CloseOf(items, caps[g])] - 1)]]

MatchAt(items, s, pos) ==
  MatchObject(items, s, pos, MatchFrom(items, s, 1, pos),
              CapturingOpens(items))

(***************************************************************************)
(* Python built-ins used by the program.                                   *)
(***************************************************************************)
None == <<>>

RECURSIVE IntToStr(_)
\* str(n) for n >= 0
IntToStr(n) ==
  IF n < 10 THEN <<DigitChars[n + 1]>>
  ELSE IntToStr(n \div 10) \o <<DigitChars[(n % 10) + 1]>>

Zeros(k) == [i \in 1..k |-> "0"]

\* zfill that cuts a text longer than the width down to the width
zfill_truncating(s, width) ==
  IF Len(s) >= width THEN SubSeq(s, Len(s) - width + 1, Len(s))
  ELSE IF s # <<>> /\ s[1] \in {"+", "-"}
       THEN <<s[1]>> \o Zeros(width - Len(s)) \o Tail(s)
       ELSE Zeros(width - Len(s)) \o s

\* str.zfill(width): zeros are inserted after a leading sign
zfill(s, width) ==
  IF Len(s) >= width THEN s
  ELSE IF s # <<>> /\ s[1] \in {"+", "-"}
       THEN <<s[1]>> \o Zeros(width - Len(s)) \o Tail(s)
       ELSE Zeros(width - Len(s)) \o s

\* int(text) succeeds on a non-empty run of decimal digits; the captures of
\* the patterns used here never hold a sign, a blank or an underscore
IsIntText(s) == s # <<>> /\ \A i \in 1..Len(s) : IsDigit(s[i])

CharOf(code) == Ascii[code - 31]

\* s with the characters of codes first..last moved by shift codes
Recase(s, ord, first, last, shift) ==
  [i \in 1..Len(s) |->
     IF ord[s[i]] >= first /\ ord[s[i]] <= last
     THEN CharOf(ord[s[i]] + shift)
     ELSE s[i]]

lower(s) == Recase(s, Ord, 65, 90, 32)

upper(s) == Recase(s, Ord, 97, 122, 0 - 32)

\* datetime.strftime for the directives the token table uses (C locale)
strftime(t, directive) ==
  IF directive = "%p"
  THEN IF t.hour < 12 THEN <<"A", "M">> ELSE <<"P", "M">>
  ELSE zfill(IntToStr(CASE directive = "%d" -> t.day
                        [] directive = "%I" -> ((t.hour + 11) % 12) + 1
                        [] directive = "%H" -> t.hour
                        [] directive = "%M" -> t.minute
                        [] directive = "%m" -> t.month
                        [] directive = "%y" -> t.year % 100
                        [] directive = "%Y" -> t.year),
             IF directive = "%Y" THEN 4 ELSE 2)

\* bytes produced by text.encode('ascii', 'ignore'): the characters above
\* code 127 are dropped
encode_ascii_ignore(s) == SelectSeq(s, LAMBDA c : Ord[c] < 128)

Before(ord, a, b) == ord[a] < ord[b]

RECURSIVE StrLess(_, _)
\* Python's < on str: lexicographic by code point
StrLess(a, b) ==
  IF b = <<>> THEN FALSE
  ELSE IF a = <<>> THEN TRUE
  ELSE IF a[1] # b[1] THEN Before(Ord, a[1], b[1])
  ELSE StrLess(Tail(a), Tail(b))

(***************************************************************************)
(* Texts of the token table (generate_tokens).                             *)
(***************************************************************************)
\* {pp}
T_pp ==
  <<"{", "p", "p", "}">>

\* {PP}
T_PP ==
  <<"{", "P", "P", "}">>

\* {DD}
T_DD ==
  <<"{", "D", "D", "}">>

\* {hh}
T_hh ==
  <<"{", "h", "h", "}">>

\* {HH}
T_HH ==
  <<"{", "H", "H", "}">>

\* {mm}
T_mm ==
  <<"{", "m", "m", "}">>

\* {MM}
T_MM ==
  <<"{", "M", "M", "}">>

\* {version}
T_version ==
  <<"{", "v", "e", "r", "s", "i", "o", "n", "}">>

\* {YY}
T_YY ==
  <<"{", "Y", "Y", "}">>

\* {YYYY}
T_YYYY ==
  <<"{", "Y", "Y", "Y", "Y", "}">>

\* {version#*}
R_version ==
  <<"{", "v", "e", "r", "s", "i", "o", "n", "#", "*", "}">>

\* [a-z]{2}
F_lower2 ==
  <<"[", "a", "-", "z", "]", "{", "2", "}">>

\* [A-Z]{2}
F_upper2 ==
  <<"[", "A", "-", "Z", "]", "{", "2", "}">>

\* [0-9]{2}
F_digit2 ==
  <<"[", "0", "-", "9", "]", "{", "2", "}">>

\* [0-9]{4}
F_digit4 ==
  <<"[", "0", "-", "9", "]", "{", "4", "}">>

\* 0*(?P<version>[0-9][0-9]*): a capture that may begin with zeros
F_version_unstripped ==
  <<"0", "*", "(", "?", "P", "<", "v", "e", "r", "s", "i", "o",
    "n", ">", "[", "0", "-", "9", "]", "[", "0", "-", "9", "]",
    "*", ")">>

\* 0*(?P<version>[1-9][0-9]*)
F_version ==
  <<"0", "*", "(", "?", "P", "<", "v", "e", "r", "s", "i", "o",
    "n", ">", "[", "1", "-", "9", "]", "[", "0", "-", "9", "]",
    "*", ")">>

\* (?:{version)(?P<padding>#*)}: the search without the '.*' in front
PaddingSearchAtStart ==
  <<"(", "?", ":", "{", "v", "e", "r", "s", "i", "o",
    "n", ")", "(", "?", "P", "<", "p", "a", "d", "d", "i", "n",
    "g", ">", "#", "*", ")", "}">>

\* (?:.*{version)(?P<padding>#*)}
PaddingSearch ==
  <<"(", "?", ":", ".", "*", "{", "v", "e", "r", "s", "i", "o",
    "n", ")", "(", "?", "P", "<", "p", "a", "d", "d", "i", "n",
    "g", ">", "#", "*", ")", "}">>

(***************************************************************************)
(* The re module keeps the expressions it has compiled in a cache; the     *)
(* expressions of the token table and of find_version_padding are the      *)
(* same in every call.                                                     *)
(***************************************************************************)
TokenExpressions ==
  {T_pp, T_PP, T_DD, T_hh, T_HH, T_mm, T_MM, T_version, T_YY, T_YYYY,
   R_version, PaddingSearch}

token_cache == [r \in TokenExpressions |-> Compile(r)]

\* the compiled form of regex: from the cache when it is there
Cached(cache, regex) ==
  IF regex \in DOMAIN cache THEN cache[regex] ELSE Compile(regex)

\* the characters a match can begin with
FirstSet(items) ==
  IF items # <<>> /\ items[1].k = "atom" /\ items[1].min >= 1
  THEN items[1].set
  ELSE Chars

RECURSIVE SubFrom(_, _, _, _, _)
RECURSIVE SubAt(_, _, _, _, _, _)
\* s from pos on, with every leftmost non-overlapping match replaced
SubFrom(items, first, repl, s, pos) ==
  SubAt(items, first, repl, s, pos,
        [p \in pos..Len(s) |->
           IF s[p] \in first THEN MatchAt(items, s, p) ELSE NoMatch])

\* found[p] is the match that begins at position p
SubAt(items, first, repl, s, pos, found) ==
  LET hits == {p \in DOMAIN found : found[p].matched /\ found[p].end > p}
      at == CHOOSE p \in hits : \A q \in hits : p <= q
  IN IF hits = {} THEN SubSeq(s, pos, Len(s))
     ELSE SubSeq(s, pos, at - 1) \o repl
          \o SubFrom(items, first, repl, s, found[at].end)

\* the substitution with the compiled items
SubItems(items, repl, s) == SubFrom(items, FirstSet(items), repl, s, 1)

\* re.sub(regex, repl, s) for an expression that matches no empty text and
\* a replacement without backslashes: every leftmost non-overlapping match
\* is replaced by repl
re_sub(regex, repl, s) == SubItems(Cached(token_cache, regex).items, repl, s)

\* the keys of self.tokens in insertion order, the order of .items()
TokenOrder ==
  <<"am/pm", "AM/PM", "Day", "Hour (12hr)", "Hour (24hr)", "Minute",
    "Month", "Version", "Year (##)", "Year (####)">>

TokenNames == {TokenOrder[i] : i \in 1..Len(TokenOrder)}

\* values[0..3] of the source are values[1..4] here:
\* token, token_regex, pattern_regex, value
generate_tokens(t) ==
  [n \in TokenNames |->
     CASE n = "am/pm" -> <<T_pp, None, F_lower2, lower(strftime(t, "%p"))>>
       [] n = "AM/PM" -> <<T_PP, None, F_upper2, upper(strftime(t, "%p"))>>
       [] n = "Day" -> <<T_DD, None, F_digit2, strftime(t, "%d")>>
       [] n = "Hour (12hr)" -> <<T_hh, None, F_digit2, strftime(t, "%I")>>
       [] n = "Hour (24hr)" -> <<T_HH, None, F_digit2, strftime(t, "%H")>>
       [] n = "Minute" -> <<T_mm, None, F_digit2, strftime(t, "%M")>>
       [] n = "Month" -> <<T_MM, None, F_digit2, strftime(t, "%m")>>
       [] n = "Version" -> <<T_version, R_version, F_version, <<"1">> >>
       [] n = "Year (##)" -> <<T_YY, None, F_digit2, strftime(t, "%y")>>
       [] n = "Year (####)" -> <<T_YYYY, None, F_digit4, strftime(t, "%Y")>>]

(***************************************************************************)
(* generate_pattern_regex and resolve_tokens.                              *)
(***************************************************************************)
RECURSIVE PatternRegexFrom(_, _, _)
\* the loop over self.tokens.items() from the i-th token on; no
\* substitution changes an empty text
PatternRegexFrom(text, toks, i) ==
  IF i > Len(TokenOrder) \/ text = <<>> THEN text
  ELSE
    LET values == toks[TokenOrder[i]]
    IN PatternRegexFrom(
         re_sub(IF values[2] # None THEN values[2] ELSE values[1],
                values[3], text),
         toks, i + 1)

generate_pattern_regex(pat, toks) == PatternRegexFrom(pat, toks, 1)

RECURSIVE ResolveFrom(_, _, _)
\* the loop of resolve_tokens from the i-th token on
ResolveFrom(text, toks, i) ==
  IF i > Len(TokenOrder) \/ text = <<>> THEN text
  ELSE
    LET values == toks[TokenOrder[i]]
    IN ResolveFrom(
         re_sub(IF values[2] # None THEN values[2] ELSE values[1],
                values[4], text),
         toks, i + 1)

\* resolve_tokens that removes the placeholders left after the substitution
resolve_tokens_dropping_unknown(pat, toks) ==
  re_sub(<<"{", "[", "a", "-", "z", "]", "*", "}">>, <<>>,
         ResolveFrom(pat, toks, 1))

resolve_tokens(pat, toks) == ResolveFrom(pat, toks, 1)

(***************************************************************************)
(* Inputs of the model: the pattern texts a user enters, the directory     *)
(* names found under the path, the clock readings, the preset names.       *)
(***************************************************************************)
\* {version}
PVersion ==
  <<"{", "v", "e", "r", "s", "i", "o", "n", "}">>

\* {version##}
PVersion2 ==
  <<"{", "v", "e", "r", "s", "i", "o", "n", "#", "#", "}">>

\* {YYYY}_{version###}
PYearVersion3 ==
  <<"{", "Y", "Y", "Y", "Y", "}", "_", "{", "v", "e", "r", "s",
    "i", "o", "n", "#", "#", "#", "}">>

\* {unknown}_v{version}
PUnknown ==
  <<"{", "u", "n", "k", "n", "o", "w", "n", "}", "_", "v", "{",
    "v", "e", "r", "s", "i", "o", "n", "}">>

\* ab
PPlain ==
  <<"a", "b">>

\* (a){version}
PGroupVersion ==
  <<"(", "a", ")", "{", "v", "e", "r", "s", "i", "o", "n", "}">>

\* (a)
PGroup ==
  <<"(", "a", ")">>

\* (1)
PDigitGroup ==
  <<"(", "1", ")">>

\* {version#}_{version}
PTwoVersions ==
  <<"{", "v", "e", "r", "s", "i", "o", "n", "#", "}", "_", "{",
    "v", "e", "r", "s", "i", "o", "n", "}">>

\* {version}_{version##}
PTwoVersionsLast ==
  <<"{", "v", "e", "r", "s", "i", "o", "n", "}", "_", "{", "v",
    "e", "r", "s", "i", "o", "n", "#", "#", "}">>

\* U+00E9 followed by {version}
PNonAscii ==
  <<NonAscii, "{", "v", "e", "r", "s", "i", "o", "n", "}">>

Patterns ==
  {PVersion, PVersion2, PYearVersion3, PUnknown, PPlain, PGroupVersion,
   PGroup, PDigitGroup, PTwoVersions, PTwoVersionsLast, PNonAscii}

\* the pattern texts typed while the whole window is exercised
WindowPatterns == {PVersion, PGroup, PNonAscii}

\* the listings next(os.walk(path))[1] may return when the script starts
ListingEmpty == <<>>

ListingNumbers == << <<"1", "1">>, <<"9">>, <<"1", "0">> >>

ListingMixed == << <<"9", "9">>, <<"a", "5">>, <<"a", "b">> >>

\* the same version written with different zero padding, and all-zero names
ListingPadded == << <<"0", "0", "1">>, <<"0", "1">>, <<"0">>, <<"0", "0">> >>

InitListings == {ListingEmpty, ListingNumbers, ListingMixed, ListingPadded}

\* directories another program may create under the path meanwhile
ExternalNames == { <<"1">>, <<"2", "0", "2", "3", "_", "0", "0", "7">> }

MaxExternal == 1

MaxReels == 1

MaxPresets == 2

Time1 == [year |-> 2023, month |-> 4, day |-> 10, hour |-> 9, minute |-> 5]

Time2 == [year |-> 2024, month |-> 11, day |-> 3, hour |-> 15, minute |-> 30]

PresetNameInputs == { <<"a">> }

\* the names and patterns typed into the Save Preset window when the preset
\* store is studied on its own
StoreNameInputs == { <<"a">>, <<"B">> }

StorePatterns == {PPlain}

\* the pattern texts typed while folders are created one after the other:
\* one version token, no character that re reads as syntax beside it
ContinuePatterns == {PVersion2, PYearVersion3}

\* the script is started again while the directory holds at most this many
\* entries
MaxDirs == 3

SavePatterns == {PPlain}

Preset(name, pat) == [name |-> name, pattern |-> pat]

NoFile == [exists |-> FALSE, presets |-> <<>>]

FileOf(presets) == [exists |-> TRUE, presets |-> presets]

InitPresetFiles == {FileOf(<< Preset(<<"a">>, PYearVersion3) >>)}

(***************************************************************************)
(* The cache of the re module for the expressions the patterns of the      *)
(* model translate to, and re.match.                                       *)
(***************************************************************************)
pattern_expressions ==
  {generate_pattern_regex(p, generate_tokens(Time1)) : p \in Patterns}

pattern_cache ==
  [r \in pattern_expressions \cup {PaddingSearch} |-> Compile(r)]

re_compile(regex) == Cached(pattern_cache, regex)

\* the match of a compiled expression at the start of s
MatchCompiled(c, s) ==
  IF c.status # "ok" THEN [status |-> c.status, m |-> NoMatch]
  ELSE [status |-> "ok", m |-> MatchAt(c.items, s, 1)]

\* re.match(regex, s): status "error" stands for a raised re.error
re_match(regex, s) == MatchCompiled(re_compile(regex), s)


(***************************************************************************)
(* State.                                                                  *)
(***************************************************************************)
VARIABLES
  clock,                   \* the wall clock dt.datetime.now() reads
  pathExists,              \* whether self.path can be listed
  dirs,                    \* the directories under self.path, listing order
  externals,               \* directories created by other programs so far
  presetsFile,             \* continue_folder.xml on disk
  now,                     \* self.now
  tokens,                  \* self.tokens
  pattern,                 \* self.pattern, the text of line_edit_pattern
  pattern_regex,           \* self.pattern_regex
  folders,                 \* self.folders
  version_padding,         \* self.version_padding
  version,                 \* the local "version" of update_version_token
  folder_new,              \* self.folder_new
  line_edit_folder,        \* the text of the "New Folder" label
  presets_xml_root,        \* the preset elements of self.presets_xml_root
  btn_preset,              \* the text of the preset button
  menu,                    \* the options of the preset button's menu
  btn_destination_reel,    \* "Desktop Reel" is checked
  btn_destination_folder,  \* "MediaHub Folder" is checked
  window,                  \* the main window: "open" or "closed"
  save_window,             \* the Save Preset window: "open" or "closed"
  reels,                   \* the reels created on the desktop, in order
  uncaught                 \* the exception that left the last handler

envVars == <<clock, pathExists, dirs, externals, presetsFile>>

passVars ==
  <<pattern, pattern_regex, folders, version_padding, version, tokens,
    folder_new, line_edit_folder>>

presetVars == <<presets_xml_root, btn_preset, menu>>

destVars == <<btn_destination_reel, btn_destination_folder>>

vars ==
  <<clock, pathExists, dirs, externals, presetsFile, now, tokens, pattern,
    pattern_regex, folders, version_padding, version, folder_new,
    line_edit_folder, presets_xml_root, btn_preset, menu,
    btn_destination_reel, btn_destination_folder, window, save_window,
    reels, uncaught>>

Range(seq) == {seq[i] : i \in 1..Len(seq)}

(***************************************************************************)
(* The stages of a resolution pass, as functions of the fields they read.  *)
(***************************************************************************)
\* re.match guarded by "except re.error": an invalid expression is no match
Caught(result) == IF result.status = "ok" THEN result.m ELSE NoMatch

capture_tokens(regex, folder) == Caught(re_match(regex, folder))

RECURSIVE ScanFrom(_, _, _, _)
RECURSIVE ScanEntry(_, _, _, _, _)
\* the loop of find_folders from entry i on; acc is self.folders so far
ScanFrom(regex, listing, i, acc) ==
  IF i > Len(listing) THEN [exc |-> "none", folders |-> acc]
  ELSE ScanEntry(regex, listing, i, acc, capture_tokens(regex, listing[i]))

\* the body of the loop for entry i, search being its match
ScanEntry(regex, listing, i, acc, search) ==
  LET name == SubSeq(listing[i], search.start, search.end - 1)
  IN IF ~search.matched THEN ScanFrom(regex, listing, i + 1, acc)
     ELSE IF Len(search.groups) = 1 THEN
       IF IsIntText(search.groups[1]) THEN
         ScanFrom(regex, listing, i + 1,
                  Append(acc, <<name, StrToInt(search.groups[1])>>))
       ELSE [exc |-> "ValueError", folders |-> acc]
     ELSE ScanFrom(regex, listing, i + 1, Append(acc, <<name>>))

\* next(os.walk(path))[1]: os.walk yields nothing for a path it cannot
\* list, so next() raises StopIteration
find_folders(regex, exists, listing) ==
  IF ~exists THEN [exc |-> "StopIteration", folders |-> <<>>]
  ELSE ScanFrom(regex, listing, 1, <<>>)

\* find_version_padding without the else branch: the width of the previous
\* pattern stays when the pattern holds no version token
\* len(result.group('padding')), or width when there is no match
PaddingOr(result, width) ==
  IF result.matched THEN Len(result.groups[1]) ELSE width

find_version_padding_keeping(pat) ==
  PaddingOr(capture_tokens(PaddingSearch, pat), version_padding)

\* find_version_padding that searches the expression the pattern translates
\* to instead of the text of the pattern
find_version_padding_of_regex(pat) ==
  PaddingOr(capture_tokens(PaddingSearch,
                           generate_pattern_regex(pat,
                                                  generate_tokens(Time1))),
            0)

find_version_padding(pat) == PaddingOr(capture_tokens(PaddingSearch, pat), 0)

RECURSIVE InsertByVersion(_, _)
\* x goes behind every element whose key is not larger (a stable sort)
InsertByVersion(x, sorted) ==
  IF sorted = <<>> THEN <<x>>
  ELSE IF x[2] < sorted[Len(sorted)][2]
       THEN Append(InsertByVersion(x, SubSeq(sorted, 1, Len(sorted) - 1)),
                   sorted[Len(sorted)])
       ELSE Append(sorted, x)

RECURSIVE SortByVersion(_)
\* list.sort(key=lambda item: item[1])
SortByVersion(list) ==
  IF list = <<>> THEN <<>>
  ELSE InsertByVersion(list[Len(list)],
                       SortByVersion(SubSeq(list, 1, Len(list) - 1)))

\* update_version_token whose except branch starts the sequence at 0
\* the fields update_version_token leaves for the version v
VersionToken(sorted, padding, v, toks) ==
  [folders |-> sorted, version_padding |-> padding, version |-> v,
   tokens |-> [toks EXCEPT !["Version"][4] = zfill(IntToStr(v), padding)]]

\* the try block without the "+ 1": the highest version found is taken again
TryHighestVersion(fldrs, padding, toks, except) ==
  IF fldrs # <<>> /\ \A i \in 1..Len(fldrs) : Len(fldrs[i]) >= 2
  THEN VersionToken(SortByVersion(fldrs), padding,
                    SortByVersion(fldrs)[Len(fldrs)][2], toks)
  ELSE VersionToken(fldrs, padding, except, toks)

\* the try block: item[1] of a 1-tuple and folders[-1] of an empty list
\* raise IndexError, which leaves the list as it was and gives the version
\* of the except branch
TryNextVersion(fldrs, padding, toks, except) ==
  IF fldrs # <<>> /\ \A i \in 1..Len(fldrs) : Len(fldrs[i]) >= 2
  THEN VersionToken(SortByVersion(fldrs), padding,
                    SortByVersion(fldrs)[Len(fldrs)][2] + 1, toks)
  ELSE VersionToken(fldrs, padding, except, toks)

\* update_version_token whose except branch starts the sequence at 0
update_version_token_from_zero(fldrs, pat, toks) ==
  TryNextVersion(fldrs, find_version_padding(pat), toks, 0)

update_version_token(fldrs, pat, toks) ==
  TryNextVersion(fldrs, find_version_padding(pat), toks, 1)


(***************************************************************************)
(* Presets.                                                                *)
(***************************************************************************)
\* the root element read from the file, or the empty default
load_presets(file) == IF file.exists THEN file.presets ELSE <<>>

\* the first preset's pattern, or the default pattern
load_pattern(root) == IF root # <<>> THEN root[1].pattern ELSE PVersion

\* get_selected_preset that takes the last preset of the list
get_selected_preset_last(root) ==
  IF root # <<>> THEN root[Len(root)].name ELSE <<>>

\* get_preset_names()[0], or '' when there is no preset
get_selected_preset(root) == IF root # <<>> THEN root[1].name ELSE <<>>

get_preset_names(root) == [i \in 1..Len(root) |-> root[i].name]

\* duplicate_check that finds no preset of the name
duplicate_check_never(root, preset_name) == FALSE

duplicate_check(root, preset_name) ==
  \E i \in 1..Len(root) : root[i].name = preset_name

RECURSIVE InsertByName(_, _)
InsertByName(x, sorted) ==
  IF sorted = <<>> THEN <<x>>
  ELSE IF StrLess(x.name, sorted[Len(sorted)].name)
       THEN Append(InsertByName(x, SubSeq(sorted, 1, Len(sorted) - 1)),
                   sorted[Len(sorted)])
       ELSE Append(sorted, x)

RECURSIVE sort_presets(_)
\* sorted(root, key=lambda child: (child.tag, child.get('name')))
sort_presets(root) ==
  IF root = <<>> THEN <<>>
  ELSE InsertByName(root[Len(root)],
                    sort_presets(SubSeq(root, 1, Len(root) - 1)))

\* the tree after save_preset appended the new element and sorted
save_preset(root, preset_name, text) ==
  sort_presets(Append(root, Preset(preset_name, text)))

\* the tree after overwrite_preset replaced the pattern of the named preset
overwrite_preset(root, preset_name, text) ==
  [i \in 1..Len(root) |->
     IF root[i].name = preset_name THEN Preset(preset_name, text)
     ELSE root[i]]

\* the tree after preset_delete_button removed the named preset
remove_preset(root, preset_name) ==
  SelectSeq(root, LAMBDA preset : preset.name # preset_name)

(***************************************************************************)
(* update_folder: one resolution pass over the text of line_edit_pattern.  *)
(* An exception of find_folders leaves the handler where it was raised.    *)
(***************************************************************************)
\* the fields after resolve_tokens, the last stage of a pass
Resolved(text, regex, scan, upd) ==
  [exc |-> scan.exc, pattern |-> text, pattern_regex |-> regex,
   scanned |-> scan.folders, folders |-> upd.folders,
   version_padding |-> upd.version_padding, version |-> upd.version,
   tokens |-> upd.tokens, folder_new |-> resolve_tokens(text, upd.tokens)]

\* update_version_token on the folders the scan found
Updated(text, toks, regex, scan) ==
  Resolved(text, regex, scan, update_version_token(scan.folders, text, toks))

\* find_folders with the expression of the pattern
Scanned(text, toks, regex, exists, listing) ==
  Updated(text, toks, regex, find_folders(regex, exists, listing))

\* generate_pattern_regex, find_folders, update_version_token and
\* resolve_tokens in the order update_folder and __init__ call them
Pass(text, toks, exists, listing) ==
  Scanned(text, toks, generate_pattern_regex(text, toks), exists, listing)

\* the fields of self and the label after the pass p; invalid tells that
\* re.error left the handler
Shown(p, invalid) ==
  /\ pattern' = p.pattern
  /\ pattern_regex' = p.pattern_regex
  /\ IF p.exc # "none" \/ invalid
     THEN /\ folders' = p.scanned
          /\ UNCHANGED <<version_padding, version, tokens, folder_new,
                         line_edit_folder>>
          /\ uncaught' = IF invalid THEN "re.error" ELSE p.exc
     ELSE /\ folders' = p.folders
          /\ version_padding' = p.version_padding
          /\ version' = p.version
          /\ tokens' = p.tokens
          /\ folder_new' = p.folder_new
          /\ line_edit_folder' = p.folder_new
          /\ uncaught' = "none"

\* update_folder as it would run if capture_tokens did not catch re.error:
\* the error leaves find_folders at the first entry it tries to match
update_folder_aborting(text) ==
  Shown(Pass(text, tokens, pathExists, dirs),
        /\ pathExists
        /\ dirs # <<>>
        /\ re_compile(generate_pattern_regex(text, tokens)).status = "error")

update_folder(text) == Shown(Pass(text, tokens, pathExists, dirs), FALSE)

\* update_pattern: setText emits textChanged only when the text differs
update_pattern(preset_name, root) ==
  IF preset_name # <<>> /\ duplicate_check(root, preset_name)
  THEN LET i == CHOOSE j \in 1..Len(root) :
                  /\ root[j].name = preset_name
                  /\ \A k \in 1..(j - 1) : root[k].name # preset_name
       IN IF root[i].pattern # pattern
          THEN update_folder(root[i].pattern)
          ELSE UNCHANGED passVars /\ uncaught' = "none"
  ELSE UNCHANGED passVars /\ uncaught' = "none"

(***************************************************************************)
(* ContinueFolder.__init__ followed by main_window.                        *)
(***************************************************************************)
Constructed(t, exists, listing, file) ==
  [root |-> load_presets(file),
   pass |-> Pass(load_pattern(load_presets(file)), generate_tokens(t),
                 exists, listing)]

Init ==
  \E listing \in InitListings, file \in InitPresetFiles :
    \E c \in {Constructed(Time1, TRUE, listing, file)} :
       /\ clock = Time1
       /\ pathExists = TRUE
       /\ dirs = listing
       /\ externals = 0
       /\ presetsFile = file
       /\ now = Time1
       /\ tokens = c.pass.tokens
       /\ pattern = c.pass.pattern
       /\ pattern_regex = c.pass.pattern_regex
       /\ folders = c.pass.folders
       /\ version_padding = c.pass.version_padding
       /\ version = c.pass.version
       /\ folder_new = c.pass.folder_new
       /\ line_edit_folder = c.pass.folder_new
       /\ presets_xml_root = c.root
       /\ btn_preset = get_selected_preset(c.root)
       /\ menu = get_preset_names(c.root)
       /\ btn_destination_reel = TRUE
       /\ btn_destination_folder = FALSE
       /\ window = "open"
       /\ save_window = "closed"
       /\ reels = <<>>
       /\ uncaught = "none"

(***************************************************************************)
(* Handlers of the main window.                                            *)
(***************************************************************************)
\* the user types or pastes into line_edit_pattern: textChanged
EditPattern(text) ==
  /\ window = "open"
  /\ text # pattern
  /\ update_folder(text)
  /\ UNCHANGED <<envVars, now, presetVars, destVars, window, save_window,
                 reels>>

\* "Add Token" menu: the token is inserted at the cursor of the line edit
insert_token(token, pos) ==
  /\ window = "open"
  /\ LET text == SubSeq(pattern, 1, pos) \o tokens[token][1]
                 \o SubSeq(pattern, pos + 1, Len(pattern))
     IN /\ text \in Patterns
        /\ update_folder(text)
  /\ UNCHANGED <<envVars, now, presetVars, destVars, window, save_window,
                 reels>>

\* a preset is picked in the menu: FlamePushButtonMenu.create_menu
create_menu(option) ==
  /\ window = "open"
  /\ btn_preset' = option
  /\ update_pattern(option, presets_xml_root)
  /\ UNCHANGED <<envVars, now, presets_xml_root, menu, destVars, window,
                 save_window, reels>>

preset_save_button ==
  /\ window = "open"
  /\ save_window = "closed"
  /\ save_window' = "open"
  /\ uncaught' = "none"
  /\ UNCHANGED <<envVars, now, passVars, presetVars, destVars, window,
                 reels>>

\* ElementTree.write either replaces the file or raises OSError
write_presets(root, writable) ==
  IF writable THEN FileOf(root) ELSE presetsFile

\* Save in the Save Preset window; preset_name and text are the texts of
\* its two line edits, confirmed answers the overwrite question
save_button(preset_name, text, confirmed, writable) ==
  /\ window = "open"
  /\ save_window = "open"
  /\ uncaught' = "none"
  /\ IF duplicate_check(presets_xml_root, preset_name)
     THEN IF confirmed
          THEN LET root == overwrite_preset(presets_xml_root, preset_name,
                                            text)
               IN /\ presets_xml_root' = root
                  /\ presetsFile' = write_presets(root, writable)
                  /\ menu' = get_preset_names(root)
                  /\ btn_preset' = preset_name
                  /\ save_window' = "closed"
          ELSE UNCHANGED <<presetVars, presetsFile, save_window>>
     ELSE /\ Len(presets_xml_root) < MaxPresets
          /\ LET root == save_preset(presets_xml_root, preset_name, text)
             IN /\ presets_xml_root' = root
                /\ presetsFile' = write_presets(root, writable)
                /\ menu' = get_preset_names(root)
                /\ btn_preset' = preset_name
                /\ save_window' = "closed"
  /\ UNCHANGED <<clock, pathExists, dirs, externals, now, passVars, destVars,
                 window, reels>>

save_cancel_button ==
  /\ window = "open"
  /\ save_window = "open"
  /\ save_window' = "closed"
  /\ uncaught' = "none"
  /\ UNCHANGED <<envVars, now, passVars, presetVars, destVars, window,
                 reels>>

\* Delete on the preset line; the write after the removal is not guarded
preset_delete_button(confirmed, writable) ==
  /\ window = "open"
  /\ LET removed == IF confirmed
                    THEN remove_preset(presets_xml_root, btn_preset)
                    ELSE presets_xml_root
         file == IF confirmed THEN write_presets(removed, writable)
                 ELSE presetsFile
         root == load_presets(file)
     IN IF confirmed /\ ~writable
        THEN /\ presets_xml_root' = removed
             /\ uncaught' = "OSError"
             /\ UNCHANGED <<presetsFile, btn_preset, menu, passVars>>
        ELSE /\ presetsFile' = file
             /\ presets_xml_root' = root
             /\ menu' = get_preset_names(root)
             /\ btn_preset' = get_selected_preset(root)
             /\ update_pattern(get_selected_preset(root), root)
  /\ UNCHANGED <<clock, pathExists, dirs, externals, now, destVars, window,
                 save_window, reels>>

\* the user checks or unchecks a destination button
toggle_destination(button) ==
  /\ window = "open"
  /\ IF button = "reel"
     THEN /\ btn_destination_reel' = ~btn_destination_reel
          /\ UNCHANGED btn_destination_folder
     ELSE /\ btn_destination_folder' = ~btn_destination_folder
          /\ UNCHANGED btn_destination_reel
  /\ uncaught' = "none"
  /\ UNCHANGED <<envVars, now, passVars, presetVars, window, save_window,
                 reels>>

\* create_desktop_reel that hands folder_new over without encoding it
create_desktop_reel_unencoded(name, desktop) == Append(desktop, name)

\* desktop.reel_groups[0].create_reel(self.folder_new.encode('ascii',
\* 'ignore')): the reels of the desktop afterwards
create_desktop_reel(name, desktop) == Append(desktop, encode_ascii_ignore(name))

\* create_media_hub_folder that accepts a directory that is already there
create_media_hub_folder_exist_ok(name, exists, listing) ==
  IF ~exists THEN [exc |-> "FileNotFoundError", dirs |-> listing]
  ELSE IF name \in Range(listing)
       THEN [exc |-> "none", dirs |-> listing]
       ELSE [exc |-> "none", dirs |-> Append(listing, name)]

\* os.mkdir(os.path.join(self.path, self.folder_new))
create_media_hub_folder(name, exists, listing) ==
  IF ~exists THEN [exc |-> "FileNotFoundError", dirs |-> listing]
  ELSE IF name \in Range(listing)
       THEN [exc |-> "FileExistsError", dirs |-> listing]
       ELSE [exc |-> "none", dirs |-> Append(listing, name)]

\* okay_button that makes the directory first: when os.mkdir raises, no
\* reel has been created
okay_button_folder_first ==
  /\ window = "open"
  /\ btn_destination_reel => Len(reels) < MaxReels
  /\ LET made == IF btn_destination_folder
                 THEN create_media_hub_folder(folder_new, pathExists, dirs)
                 ELSE [exc |-> "none", dirs |-> dirs]
     IN /\ dirs' = made.dirs
        /\ uncaught' = made.exc
        /\ window' = IF made.exc = "none" THEN "closed" ELSE "open"
        /\ reels' = IF btn_destination_reel /\ made.exc = "none"
                    THEN create_desktop_reel(folder_new, reels)
                    ELSE reels
  /\ UNCHANGED <<clock, pathExists, externals, presetsFile, now, passVars,
                 presetVars, destVars, save_window>>

\* Ok: the reel, then the directory, then window.close(); an exception of
\* os.mkdir leaves the handler before the window is closed
okay_button ==
  /\ window = "open"
  /\ btn_destination_reel => Len(reels) < MaxReels
  /\ reels' = IF btn_destination_reel
              THEN create_desktop_reel(folder_new, reels)
              ELSE reels
  /\ LET made == IF btn_destination_folder
                 THEN create_media_hub_folder(folder_new, pathExists, dirs)
                 ELSE [exc |-> "none", dirs |-> dirs]
     IN /\ dirs' = made.dirs
        /\ uncaught' = made.exc
        /\ window' = IF made.exc = "none" THEN "closed" ELSE "open"
  /\ UNCHANGED <<clock, pathExists, externals, presetsFile, now, passVars,
                 presetVars, destVars, save_window>>

cancel_button ==
  /\ window = "open"
  /\ window' = "closed"
  /\ uncaught' = "none"
  /\ UNCHANGED <<envVars, now, passVars, presetVars, destVars, save_window,
                 reels>>

\* "Continue Folder" is picked again in the MediaHub after the window was
\* closed: process_selection constructs a new ContinueFolder for the path.
\* An exception of find_folders leaves __init__ before the window is built.
process_selection ==
  /\ window = "closed"
  /\ Len(dirs) <= MaxDirs
  /\ \E c \in {Constructed(clock, pathExists, dirs, presetsFile)} :
       /\ now' = clock
       /\ presets_xml_root' = c.root
       /\ pattern' = c.pass.pattern
       /\ pattern_regex' = c.pass.pattern_regex
       /\ IF c.pass.exc # "none"
          THEN /\ folders' = c.pass.scanned
               /\ tokens' = generate_tokens(clock)
               /\ uncaught' = c.pass.exc
               /\ UNCHANGED <<version_padding, version, folder_new,
                              line_edit_folder, btn_preset, menu, destVars,
                              window, save_window>>
          ELSE /\ folders' = c.pass.folders
               /\ tokens' = c.pass.tokens
               /\ version_padding' = c.pass.version_padding
               /\ version' = c.pass.version
               /\ folder_new' = c.pass.folder_new
               /\ line_edit_folder' = c.pass.folder_new
               /\ btn_preset' = get_selected_preset(c.root)
               /\ menu' = get_preset_names(c.root)
               /\ btn_destination_reel' = TRUE
               /\ btn_destination_folder' = FALSE
               /\ window' = "open"
               /\ save_window' = "closed"
               /\ uncaught' = "none"
  /\ UNCHANGED <<envVars, reels>>

(***************************************************************************)
(* The environment: the clock advances, another program creates a          *)
(* directory under the path, the path disappears.                          *)
(***************************************************************************)
Tick ==
  /\ window = "open"
  /\ clock = Time1
  /\ clock' = Time2
  /\ UNCHANGED <<pathExists, dirs, externals, presetsFile, now, passVars,
                 presetVars, destVars, window, save_window, reels, uncaught>>

ExternalMkdir(name) ==
  /\ window = "open"
  /\ pathExists
  /\ externals < MaxExternal
  /\ name \notin Range(dirs)
  /\ dirs' = Append(dirs, name)
  /\ externals' = externals + 1
  /\ UNCHANGED <<clock, pathExists, presetsFile, now, passVars, presetVars,
                 destVars, window, save_window, reels, uncaught>>

PathRemoved ==
  /\ window = "open"
  /\ pathExists
  /\ pathExists' = FALSE
  /\ dirs' = <<>>
  /\ UNCHANGED <<clock, externals, presetsFile, now, passVars, presetVars,
                 destVars, window, save_window, reels, uncaught>>

Next ==
  \/ \E text \in WindowPatterns : EditPattern(text)
  \/ \E token \in TokenNames, pos \in 0..Len(pattern) :
       insert_token(token, pos)
  \/ \E option \in Range(menu) : create_menu(option)
  \/ preset_save_button
  \/ \E preset_name \in PresetNameInputs, text \in SavePatterns,
        confirmed \in BOOLEAN, writable \in BOOLEAN :
       save_button(preset_name, text, confirmed, writable)
  \/ save_cancel_button
  \/ \E confirmed \in BOOLEAN, writable \in BOOLEAN :
       preset_delete_button(confirmed, writable)
  \/ \E button \in {"reel", "folder"} : toggle_destination(button)
  \/ okay_button
  \/ cancel_button

Spec == Init /\ [][Next]_vars

\* the pattern line alone: every pattern text, a changing directory
NextPass ==
  \/ \E text \in Patterns : EditPattern(text)
  \/ \E token \in TokenNames, pos \in 0..Len(pattern) :
       insert_token(token, pos)
  \/ \E option \in Range(menu) : create_menu(option)
  \/ Tick
  \/ \E name \in ExternalNames : ExternalMkdir(name)
  \/ PathRemoved

SpecPass == Init /\ [][NextPass]_vars

\* the preset line and the Save Preset window alone
NextPresets ==
  \/ \E option \in Range(menu) : create_menu(option)
  \/ preset_save_button
  \/ \E preset_name \in StoreNameInputs, text \in StorePatterns,
        confirmed \in BOOLEAN, writable \in BOOLEAN :
       save_button(preset_name, text, confirmed, writable)
  \/ save_cancel_button
  \/ \E confirmed \in BOOLEAN, writable \in BOOLEAN :
       preset_delete_button(confirmed, writable)

SpecPresets == Init /\ [][NextPresets]_vars

\* folders created one after the other: the pattern line, the destination
\* buttons, Ok, the script started again, and the clock
NextContinue ==
  \/ \E text \in ContinuePatterns : EditPattern(text)
  \/ \E button \in {"reel", "folder"} : toggle_destination(button)
  \/ okay_button
  \/ process_selection
  \/ Tick

SpecContinue == Init /\ [][NextContinue]_vars

(***************************************************************************)
(* Properties.  A step with pattern' # pattern is a run of update_folder   *)
(* (a resolution pass): the handlers change the pattern text only through  *)
(* it.  The pass reads the directory as it is before the step.             *)
(***************************************************************************)

\* C1: for every pattern with one version token and every listing in which
\* at least one entry matches, the pass sets the Version value to the
\* numerically greatest integer captured by the group named "version",
\* plus one.
C1_NextIsMaxPlusOne ==
  [][(pattern' # pattern /\ pathExists) =>
       LET starts == {i \in 1..Len(pattern') :
                        MatchAt(token_cache[R_version].items, pattern', i).matched}
           c == Compile(pattern_regex')
           caps == CapturingOpens(c.items)
           g == CHOOSE k \in 1..Len(caps) :
                  c.items[caps[k]].name = <<"v", "e", "r", "s", "i", "o", "n">>
           hit == {i \in 1..Len(dirs) : MatchAt(c.items, dirs[i], 1).matched}
           captured == {StrToInt(MatchAt(c.items, dirs[i], 1).groups[g]) :
                          i \in hit}
       IN (Cardinality(starts) = 1 /\ c.status = "ok" /\ hit # {}) =>
            /\ uncaught' = "none"
            /\ version' =
                 (CHOOSE m \in captured : \A n \in captured : n <= m) + 1
            /\ StrToInt(tokens'["Version"][4]) = version']_vars

\* C2: when the directory is empty or none of its entries matches the
\* compiled pattern, the pass ends with version 1, and the pattern
\* "{version}" on an empty directory resolves to the name "1".
C2_NoMatchGivesOne ==
  [][(/\ pattern' # pattern
      /\ pathExists
      /\ \A i \in 1..Len(dirs) :
           ~capture_tokens(pattern_regex', dirs[i]).matched) =>
       /\ uncaught' = "none"
       /\ folders' = <<>>
       /\ version' = 1
       /\ StrToInt(tokens'["Version"][4]) = 1
       /\ (pattern' = PVersion /\ dirs = <<>>) => folder_new' = <<"1">>]_vars

\* "{version}" was resolved against an empty directory
C2_Witness ==
  /\ pattern = PVersion
  /\ pathExists /\ dirs = <<>>
  /\ uncaught = "none"
  /\ version = 1
  /\ folder_new = <<"1">>

\* C3: for a pattern without a version token the pass always leaves the
\* Version value "1", whatever the directory holds.
C3_NoTokenGivesOne ==
  [][(/\ pattern' # pattern
      /\ pathExists
      /\ \A i \in 1..Len(pattern') :
           ~MatchAt(token_cache[R_version].items, pattern', i).matched) =>
       /\ version' = 1
       /\ tokens'["Version"][4] = <<"1">>]_vars

\* C4: the Version value is the decimal text of the version, padded with
\* zeros on the left to the padding width and never cut: its length is the
\* greater of the width and the number of digits, and it denotes the version.
C4_PaddedNeverTruncated ==
  LET txt == tokens["Version"][4]
      digits == CHOOSE k \in 1..9 : 10 ^ (k - 1) <= version /\ version < 10 ^ k
  IN /\ version >= 1
     /\ IsIntText(txt)
     /\ Len(txt) = Max(version_padding, digits)
     /\ StrToInt(txt) = version
     /\ \A i \in 1..(Len(txt) - digits) : txt[i] = "0"

\* width 2 and version 100: the text is "100"
C4_Witness ==
  /\ version_padding = 2
  /\ version = 100
  /\ tokens["Version"][4] = <<"1", "0", "0">>
  /\ folder_new = <<"1", "0", "0">>

\* C5: a placeholder no token defines stays in the resolved name while the
\* known tokens are substituted: "{unknown}_v{version}" resolves to
\* "{unknown}_v" followed by the Version value.
C5_UnknownPlaceholderKept ==
  [][(pattern' # pattern /\ pattern' = PUnknown /\ pathExists) =>
       /\ uncaught' = "none"
       /\ folder_new' =
            <<"{", "u", "n", "k", "n", "o", "w", "n", "}", "_", "v">>
            \o tokens'["Version"][4]
       /\ line_edit_folder' = folder_new']_vars

\* "{unknown}_v{version}" was resolved
C5_Witness ==
  /\ pattern = PUnknown
  /\ uncaught = "none"
  /\ folder_new =
       <<"{", "u", "n", "k", "n", "o", "w", "n", "}", "_", "v", "1">>

\* C6: every pattern change that renders the version scans the directory
\* again and renders with the width of the current pattern: the number of
\* '#' of its version token, 0 when it has none.
C6_PaddingOfCurrentPattern ==
  [][(pattern' # pattern /\ uncaught' = "none") =>
       LET starts == {i \in 1..Len(pattern') :
                        MatchAt(token_cache[R_version].items, pattern', i).matched}
           hashes(i) == Cardinality({j \in (i + 8)..Len(pattern') :
                                       /\ pattern'[j] = "#"
                                       /\ \A k \in (i + 8)..j :
                                            pattern'[k] = "#"})
       IN /\ starts = {} => version_padding' = 0
          /\ \A i \in starts :
               Cardinality(starts) = 1 => version_padding' = hashes(i)
          /\ Len(tokens'["Version"][4]) >= version_padding'
          /\ Len(folders') =
               Cardinality({i \in 1..Len(dirs) :
                              capture_tokens(pattern_regex', dirs[i]).matched})
       ]_vars

\* "{version}" (width 0) was resolved after the "{YYYY}_{version###}"
\* (width 3) of the start, and after another program created a directory,
\* which the new scan found
C6_Witness ==
  /\ pattern = PVersion
  /\ version_padding = 0
  /\ uncaught = "none"
  /\ externals = 1
  /\ \E i \in 1..Len(folders) : folders[i][1] = dirs[Len(dirs)]
  /\ dirs[Len(dirs)] \in ExternalNames

C8_ErrorsRecovered ==
  [][(/\ pattern' # pattern
      /\ find_folders(pattern_regex', pathExists, dirs).exc # "none") =>
       /\ uncaught' = "none"
       /\ pattern_regex' = pattern_regex
       /\ folders' = folders
       /\ tokens'["Version"][4] = tokens["Version"][4]
       /\ folder_new' = folder_new]_vars

\* C9 as stated: a reel or a directory appears only in a step of Ok, and
\* its name is folder_new.
C9_CreatedNameIsFolderNew ==
  [][(reels' # reels \/ dirs' # dirs) =>
       /\ okay_button
       /\ reels' # reels => reels' = Append(reels, folder_new)
       /\ dirs' # dirs => dirs' = Append(dirs, folder_new)]_vars

\* C9 amended: a reel or a directory appears only in a step of Ok, which
\* runs no pass; the directory is named folder_new and the reel is named
\* folder_new without its characters outside ASCII.
C9_CreatedOnlyByOk ==
  [][(reels' # reels \/ dirs' # dirs) =>
       /\ okay_button
       /\ folder_new' = folder_new /\ pattern' = pattern
       /\ reels' # reels =>
            reels' = Append(reels,
                            SelectSeq(folder_new, LAMBDA c : c # NonAscii))
       /\ dirs' # dirs => dirs' = Append(dirs, folder_new)]_vars

\* Ok created the reel "1" and the directory U+00E9 "1"
C9_Witness ==
  /\ window = "closed"
  /\ folder_new = <<NonAscii, "1">>
  /\ reels = << <<"1">> >>
  /\ dirs # <<>> /\ dirs[Len(dirs)] = folder_new

\* C10: Ok with "MediaHub Folder" checked while a directory named
\* folder_new exists fails with FileExistsError; nothing is created or
\* renamed, the window and every result of the pass stay, and folder_new
\* changes only in a pass.
C10_ExistingDirectoryFails ==
  [][/\ (/\ okay_button
         /\ btn_destination_folder
         /\ pathExists
         /\ folder_new \in Range(dirs)) =>
          /\ uncaught' = "FileExistsError"
          /\ dirs' = dirs
          /\ window' = "open"
          /\ UNCHANGED passVars
     /\ folder_new' # folder_new => pattern' # pattern]_vars

\* Ok failed on a directory that was already there
C10_Witness ==
  /\ uncaught = "FileExistsError"
  /\ window = "open"
  /\ btn_destination_folder
  /\ folder_new \in Range(dirs)

\* C11: a pass triggered by a pattern change substitutes the time values of
\* the clock reading of that pass and the version of that pass's scan: the
\* name is the pattern resolved with the token table generated from the
\* current clock, its Version value being the one this pass computed.
C11_ValuesOfThisRun ==
  [][(pattern' # pattern /\ uncaught' = "none") =>
       /\ tokens'["Version"][4] =
            update_version_token(folders', pattern', tokens).tokens["Version"][4]
       /\ folder_new' =
            resolve_tokens(pattern',
                           [generate_tokens(clock) EXCEPT
                              !["Version"][4] = tokens'["Version"][4]])]_vars

\* C12: when the names of the presets are pairwise distinct, in the tree and
\* in the file, they are pairwise distinct after every step; Save under a
\* name that exists appends nothing: confirmed, it replaces the pattern of
\* that preset; declined, it leaves the tree and the file as they were.
C12_NamesStayDistinct ==
  [][LET Distinct(root) ==
           \A i, j \in 1..Len(root) : i # j => root[i].name # root[j].name
     IN (Distinct(presets_xml_root) /\ Distinct(presetsFile.presets)) =>
          /\ Distinct(presets_xml_root')
          /\ Distinct(presetsFile'.presets)
          /\ \A n \in StoreNameInputs, t \in StorePatterns,
                c \in BOOLEAN, w \in BOOLEAN :
               (/\ save_button(n, t, c, w)
                /\ \E i \in 1..Len(presets_xml_root) :
                     presets_xml_root[i].name = n) =>
                 IF c
                 THEN presets_xml_root' =
                        [i \in 1..Len(presets_xml_root) |->
                           IF presets_xml_root[i].name = n
                           THEN [name |-> n, pattern |-> t]
                           ELSE presets_xml_root[i]]
                 ELSE UNCHANGED <<presets_xml_root, presetsFile>>]_vars

\* "B" was saved as a second preset and the pattern of "a" was overwritten
C12_Witness ==
  /\ Len(presets_xml_root) = 2
  /\ \E i \in 1..2 : presets_xml_root[i] = [name |-> <<"a">>, pattern |-> PPlain]
  /\ \E i \in 1..2 : presets_xml_root[i].name = <<"B">>
  /\ presetsFile.presets = presets_xml_root
  /\ save_window = "closed"

\* C13: a pass reads the padding width off the text of the pattern: the
\* number of '#' between "{version" and the "}" that closes it (of the last
\* such token when there are several), 0 when that token has no '#' and 0
\* when the pattern holds no such token.
C13_PaddingFromPatternText ==
  [][(pattern' # pattern /\ uncaught' = "none") =>
       LET IsToken(i, n) ==
             /\ i + 8 + n <= Len(pattern')
             /\ SubSeq(pattern', i, i + 7) =
                  <<"{", "v", "e", "r", "s", "i", "o", "n">>
             /\ \A k \in 1..n : pattern'[i + 7 + k] = "#"
             /\ pattern'[i + 8 + n] = "}"
           found == {t \in (1..Len(pattern')) \X (0..Len(pattern')) :
                       IsToken(t[1], t[2])}
       IN /\ found = {} => version_padding' = 0
          /\ \A t \in found :
               (\A u \in found : u[1] <= t[1]) => version_padding' = t[2]]_vars

\* "{version##}" was resolved: the width is 2
C13_Witness ==
  /\ pattern = PVersion2
  /\ uncaught = "none"
  /\ version_padding = 2
  /\ Len(tokens["Version"][4]) >= 2

\* C14: a pass over a directory that can be listed records an entry exactly
\* when a prefix of it conforms to the expression of the pattern, under the
\* name of that prefix; the other entries are dropped without an error and
\* the version is the one the conforming entries alone would give.
C14_PrefixMatchesRecorded ==
  [][(pattern' # pattern /\ pathExists) =>
       LET c == re_compile(pattern_regex')
           Conforms(text) ==
             /\ c.status = "ok"
             /\ MatchAt(c.items, text, 1).matched
             /\ MatchAt(c.items, text, 1).end = Len(text) + 1
           Prefixes(d) ==
             {k \in 0..Len(d) : Conforms(SubSeq(d, 1, k))}
           kept == SelectSeq(dirs, LAMBDA d : Prefixes(d) # {})
       IN /\ uncaught' = "none"
          /\ Len(folders') = Len(kept)
          /\ \A d \in Range(kept) :
               \E j \in 1..Len(folders'), k \in Prefixes(d) :
                 folders'[j][1] = SubSeq(d, 1, k)
          /\ version' = Pass(pattern', tokens, TRUE, kept).version]_vars

\* C15: in a pass over a pattern with a version token, the version recorded
\* for an entry is the integer value of a digit run of the recorded name,
\* at least 1, whatever the number of zeros in front; under "{version}" and
\* "{version##}" the entries "1", "01" and "001" are each recorded with
\* version 1, and the entries "0" and "00" are not recorded.
C15_LeadingZerosIgnored ==
  [][(/\ pattern' # pattern
      /\ pathExists
      /\ \E i \in 1..Len(pattern') :
           MatchAt(token_cache[R_version].items, pattern', i).matched
      /\ Compile(pattern_regex').status = "ok") =>
       LET IsRun(name, p, q) ==
             /\ \A k \in p..q : IsDigit(name[k])
             /\ p = 1 \/ ~IsDigit(name[p - 1])
             /\ q = Len(name) \/ ~IsDigit(name[q + 1])
           Same == { <<"1">>, <<"0", "1">>, <<"0", "0", "1">> }
           Zero == { <<"0">>, <<"0", "0">> }
       IN /\ uncaught' = "none"
          /\ \A j \in 1..Len(folders') :
               Len(folders'[j]) = 2 =>
                 /\ folders'[j][2] >= 1
                 /\ \E p \in 1..Len(folders'[j][1]),
                       q \in 1..Len(folders'[j][1]) :
                      /\ IsRun(folders'[j][1], p, q)
                      /\ StrToInt(SubSeq(folders'[j][1], p, q)) =
                           folders'[j][2]
               /\ folders'[j][1] \notin Zero
          /\ pattern' \in {PVersion, PVersion2} =>
               \A d \in Range(dirs) \cap Same :
                 \E j \in 1..Len(folders') : folders'[j] = <<d, 1>>]_vars

\* "{version##}" was resolved over "001", "01", "0", "00" and the "1" that
\* another program created: three entries of version 1, the next is "02"
C15_Witness ==
  /\ pattern = PVersion2
  /\ uncaught = "none"
  /\ Range(dirs) =
       { <<"0", "0", "1">>, <<"0", "1">>, <<"0">>, <<"0", "0">>, <<"1">> }
  /\ Len(folders) = 3
  /\ \A j \in 1..3 : folders[j][2] = 1
  /\ folder_new = <<"0", "2">>

\* C16: every change of the pattern runs the four stages in order, each on
\* the output of the one before in the same pass: the expression is the
\* translation of the new pattern, the folders are the scan with that
\* expression, the Version value comes from those folders, the name is the
\* new pattern resolved with that value, and the label shows that name.
C16_FourStagesInOrder ==
  [][pattern' # pattern =>
       /\ pattern_regex' = generate_pattern_regex(pattern', tokens)
       /\ uncaught' = "none"
       /\ Range(folders') =
            Range(find_folders(pattern_regex', pathExists, dirs).folders)
       /\ tokens' = update_version_token(folders', pattern', tokens).tokens
       /\ version' = update_version_token(folders', pattern', tokens).version
       /\ folder_new' = resolve_tokens(pattern', tokens')
       /\ line_edit_folder' = folder_new']_vars

\* C17: the expression of the current pattern has exactly one capturing
\* group exactly when the pattern holds a version token, and a recorded
\* entry carries a version exactly when the pattern holds a version token.
C17_OneGroupIffVersionToken ==
  LET c == Compile(pattern_regex)
      token == \E i \in 1..Len(pattern) :
                 MatchAt(token_cache[R_version].items, pattern, i).matched
  IN /\ (c.status = "ok" /\ Len(CapturingOpens(c.items)) = 1) <=> token
     /\ \A j \in 1..Len(folders) : Len(folders[j]) = 2 <=> token

\* C18: the presets of the tree, and the names the preset menu lists, are in
\* alphabetical order of their names, letters compared without regard to
\* their case.
C18_PresetsAlphabetical ==
  /\ \A i, j \in 1..Len(presets_xml_root) :
       i < j => ~StrLess(lower(presets_xml_root[j].name),
                         lower(presets_xml_root[i].name))
  /\ \A i, j \in 1..Len(menu) :
       i < j => ~StrLess(lower(menu[j]), lower(menu[i]))

\* C19: a pass over a pattern with more than one version token, the
\* directory being listable: the expression does not compile, no entry is
\* recorded and no exception leaves the pass; the version is 1 whatever the
\* directory holds, the width is the number of '#' of the last version
\* token, and every version token is replaced by the same value:
\* "{version#}_{version}" gives "1_1", "{version}_{version##}" gives "01_01".
C19_RepeatedVersionToken ==
  [][(/\ pattern' # pattern
      /\ pathExists
      /\ Cardinality({i \in 1..Len(pattern') :
                        MatchAt(token_cache[R_version].items, pattern', i)
                          .matched}) > 1) =>
       LET last == CHOOSE i \in 1..Len(pattern') :
                     /\ SubSeq(pattern', i, i + 7) =
                          <<"{", "v", "e", "r", "s", "i", "o", "n">>
                     /\ \A k \in (i + 1)..Len(pattern') : pattern'[k] # "{"
           width == Cardinality({k \in last..Len(pattern') :
                                   pattern'[k] = "#"})
       IN /\ Compile(pattern_regex').status = "error"
          /\ uncaught' = "none"
          /\ folders' = <<>>
          /\ version' = 1
          /\ version_padding' = width
          /\ tokens'["Version"][4] = [k \in 1..Max(width, 1) |->
                                        IF k = Max(width, 1) THEN "1" ELSE "0"]
          /\ pattern' = PTwoVersions => folder_new' = <<"1", "_", "1">>
          /\ pattern' = PTwoVersionsLast =>
               folder_new' = <<"0", "1", "_", "0", "1">>
          /\ line_edit_folder' = folder_new']_vars

\* "{version}_{version##}" was resolved over a directory with entries
C19_Witness ==
  /\ pattern = PTwoVersionsLast
  /\ pathExists /\ dirs # <<>>
  /\ uncaught = "none"
  /\ version_padding = 2
  /\ folder_new = <<"0", "1", "_", "0", "1">>

\* C20: continuation. Every completed pass over a pattern with
\* one version token and no expression syntax beside it resolves a name that
\* is not an entry of the directory; and when Ok has created the resolved
\* name and the script is started again with the same pattern, the version
\* is one more than the version before, as it is for any pass of
\* update_folder over the pattern and the directory Ok has left.
C20_Continuation ==
  [][ /\ ( /\ \/ pattern' # pattern
              \/ window = "closed" /\ window' = "open"
           /\ uncaught' = "none"
           /\ pattern' \in ContinuePatterns )
         => folder_new' \notin Range(dirs')
      /\ ( /\ window = "closed" /\ window' = "open"
           /\ pattern' = pattern
           /\ pattern \in ContinuePatterns
           /\ dirs # <<>>
           /\ dirs[Len(dirs)] = folder_new )
         => version' = version + 1
      /\ ( /\ window = "open" /\ window' = "closed"
           /\ dirs' # dirs
           /\ pattern \in ContinuePatterns )
         => /\ dirs' = Append(dirs, folder_new)
            /\ Pass(pattern, tokens, pathExists, dirs').version
                 = version + 1 ]_vars

\* two folders were created by Ok, one per run and the second after the year
\* had changed, and the third run resolves the third name of the sequence
C20_Witness ==
  /\ window = "open"
  /\ uncaught = "none"
  /\ pattern = PYearVersion3
  /\ dirs = << <<"2", "0", "2", "3", "_", "0", "0", "1">>,
               <<"2", "0", "2", "4", "_", "0", "0", "2">> >>
  /\ version = 3
  /\ folder_new = <<"2", "0", "2", "4", "_", "0", "0", "3">>

\* C21: history independence. After every pattern change the matched-folder
\* list, the version and the resolved name are those that one pass over the
\* current pattern, the directory as it is listed and the token table of
\* the session's timestamp gives, whatever patterns were resolved before.
C21_HistoryIndependent ==
  [][ pattern' # pattern =>
        /\ folders' = Pass(pattern', generate_tokens(now), pathExists,
                           dirs).folders
        /\ version' = Pass(pattern', generate_tokens(now), pathExists,
                           dirs).version
        /\ folder_new' = Pass(pattern', generate_tokens(now), pathExists,
                              dirs).folder_new ]_vars

\* C22: Delete on the preset line with the confirmation declined leaves the
\* presets file as it is; the preset button is set to the first preset of
\* the file, and when there is one the pattern becomes that preset's
\* pattern, resolved by a new pass when the text differs from the current one.
C22_DeclinedDeleteReloads ==
  [][ (\E writable \in BOOLEAN : preset_delete_button(FALSE, writable)) =>
        /\ presetsFile' = presetsFile
        /\ IF presetsFile.exists /\ presetsFile.presets # <<>>
           THEN /\ btn_preset' = presetsFile.presets[1].name
                /\ pattern' = presetsFile.presets[1].pattern
                /\ IF pattern' = pattern
                   THEN UNCHANGED passVars
                   ELSE /\ pattern_regex' =
                             generate_pattern_regex(pattern', tokens)
                        /\ uncaught' = "none" =>
                             /\ folder_new' = resolve_tokens(pattern', tokens')
                             /\ line_edit_folder' = folder_new'
           ELSE /\ btn_preset' = <<>>
                /\ UNCHANGED passVars ]_vars

\* the preset "B" was saved before "a" and another preset chosen, and the
\* pattern of "B" is the current one, resolved
C22_Witness ==
  /\ window = "open"
  /\ uncaught = "none"
  /\ Len(presetsFile.presets) = 2
  /\ presetsFile.presets[1].name = <<"B">>
  /\ btn_preset = <<"B">>
  /\ pattern = PPlain
  /\ folder_new = PPlain

\* C23: Ok with both destination buttons checked creates the reel and then
\* the directory; when the directory cannot be created the reel made just
\* before stays, no directory appears and the window stays open. Ok with
\* neither button checked creates nothing and closes the window.
C23_ReelBeforeDirectory ==
  [][ okay_button =>
        /\ (btn_destination_reel /\ btn_destination_folder) =>
             /\ reels' = Append(reels,
                                SelectSeq(folder_new,
                                          LAMBDA c : c # NonAscii))
             /\ IF pathExists /\ folder_new \notin Range(dirs)
                THEN /\ dirs' = Append(dirs, folder_new)
                     /\ window' = "closed"
                ELSE /\ dirs' = dirs
                     /\ window' = "open"
                     /\ uncaught' # "none"
        /\ (~btn_destination_reel /\ ~btn_destination_folder) =>
             /\ reels' = reels
             /\ dirs' = dirs
             /\ window' = "closed" ]_vars

\* Ok with both buttons checked failed on an existing directory: the reel
\* is there and the window is open
C23_Witness ==
  /\ window = "open"
  /\ uncaught = "FileExistsError"
  /\ btn_destination_reel /\ btn_destination_folder
  /\ folder_new \in Range(dirs)
  /\ reels = << SelectSeq(folder_new, LAMBDA c : c # NonAscii) >>

====
